---- MODULE Spec2Model ----
(***************************************************************************)
(* xrp-viewer: the address validator (src/address.rs), the value           *)
(* normalisation and projection of ledger records (src/models.rs), the     *)
(* ledger client (src/api.rs), the output (src/display.rs), the balance    *)
(* command (src/main.rs) and the private-key configuration                 *)
(* (src/config.rs).                                                        *)
(*                                                                         *)
(* Rust strings that the code inspects character by character are          *)
(* sequences of one-character strings; a non-ASCII character is a token    *)
(* naming its code point, such as YA (U+044F, two bytes in UTF-8).         *)
(* Russian string literals of the source are transliterated, the original  *)
(* is given in a comment next to each.  A u64 whose width matters is the   *)
(* sequence of its eight bytes.                                            *)
(***************************************************************************)
EXTENDS Integers, Sequences, FiniteSets, TLC

VARIABLES
    address,      \* the address string handed to validate / handle_balance
    vresult,      \* what AddressValidator::validate returned ("none": not called)
    decodeCalls,  \* how many times from_base58 was invoked by validate
    account_data, \* an AccountData record of a ledger response
    tx,           \* a Transaction record of a ledger response
    called,       \* which function of models.rs was called ("none": not yet)
    out,          \* <<v>>: the value v that call returned; <<>> before
    overflow_checks, \* whether the build checks integer overflow (debug profile)
    pc,           \* where handle_balance is
    requests,     \* the requests posted to the ledger API so far
    info_result,  \* <<r>>: what get_account_info returned; <<>> before
    tx_response,  \* <<r>>: the response to the account_tx request; <<>> before
    tx_result,    \* <<r>>: what get_latest_transaction returned; <<>> before
    displayed,    \* <<d>>: what display_account_info printed; <<>> if not called
    stderr,       \* the lines written to stderr
    exit_code,    \* <<c>>: the exit code of the process; <<>> while it runs
    env,          \* PRIVATE_KEY in the process environment: None or Some(value)
    loaded,       \* Some(f): the file of the last load_env_file that returned Ok
    loads,        \* how many times load_env_file was called
    key_result    \* <<r>>: what get_private_key returned; <<>> before

addrVars == <<address, vresult, decodeCalls>>
normVars == <<account_data, tx, called, out, overflow_checks>>
balVars == <<pc, requests, info_result, tx_response, tx_result, displayed,
             stderr, exit_code>>
cfgVars == <<env, loaded, loads, key_result>>
vars == <<addrVars, normVars, balVars, cfgVars>>

\* Option<T>
None == <<>>
Some(x) == <<x>>

(***************************************************************************)
(* Strings                                                                 *)
(***************************************************************************)

\* The Cyrillic letter U+044F: the non-ASCII character of the address inputs.
YA == "U+044F"

\* The letters of "Неизвестно": U+041D U+0435 U+0438 U+0437 U+0432 U+0441
\* U+0442 U+043D U+043E, each two bytes in UTF-8 like YA.
TWO_BYTE_CHARS ==
    {YA, "U+041D", "U+0435", "U+0438", "U+0437", "U+0432", "U+0441", "U+0442",
     "U+043D", "U+043E"}

\* Number of UTF-8 bytes of one character.
Utf8Width(c) == IF c \in TWO_BYTE_CHARS THEN 2 ELSE 1


RECURSIVE StrLen(_)
\* str::len(): the length of a string in bytes, not in characters.
StrLen(s) == IF s = <<>> THEN 0 ELSE Utf8Width(Head(s)) + StrLen(Tail(s))

\* str::is_char_boundary: b is the byte offset of the start of a character
\* or the end of the string.
IsCharBoundary(s, b) == \E k \in 0..Len(s) : StrLen(SubSeq(s, 1, k)) = b

\* The number of characters in the first b bytes of s.
CharsBefore(s, b) == CHOOSE k \in 0..Len(s) : StrLen(SubSeq(s, 1, k)) = b

\* &s[..b]
SliceTo(s, b) == SubSeq(s, 1, CharsBefore(s, b))

\* &s[b..]
SliceFrom(s, b) == SubSeq(s, CharsBefore(s, b) + 1, Len(s))

\* str::starts_with(char)
StartsWith(s, c) == s # <<>> /\ Head(s) = c

\* n copies of the character c
Repeat(c, n) == [i \in 1..n |-> c]

(***************************************************************************)
(* Base58 decoding (crate base58, Bitcoin alphabet), called at             *)
(* address.rs:61                                                           *)
(***************************************************************************)

ALPHABET ==
    <<"1", "2", "3", "4", "5", "6", "7", "8", "9", "A", "B", "C", "D", "E",
      "F", "G", "H", "J", "K", "L", "M", "N", "P", "Q", "R", "S", "T", "U",
      "V", "W", "X", "Y", "Z", "a", "b", "c", "d", "e", "f", "g", "h", "i",
      "j", "k", "m", "n", "o", "p", "q", "r", "s", "t", "u", "v", "w", "x",
      "y", "z">>

IsBase58Char(c) == \E i \in 1..Len(ALPHABET) : ALPHABET[i] = c

\* The value 0..57 of a Base58 character.
Base58Digit(c) == (CHOOSE i \in 1..Len(ALPHABET) : ALPHABET[i] = c) - 1

RECURSIVE MulAdd58(_, _)
\* bytes * 58 + carry on a big-endian byte string without leading zero bytes.
MulAdd58(bytes, carry) ==
    IF bytes = <<>>
    THEN IF carry = 0 THEN <<>> ELSE <<carry>>
    ELSE LET n == Len(bytes)
             t == bytes[n] * 58 + carry
         IN  Append(MulAdd58(SubSeq(bytes, 1, n - 1), t \div 256), t % 256)

RECURSIVE Base58Number(_, _)
\* The big-endian bytes of the number whose Base58 digits are s, after acc.
Base58Number(s, acc) ==
    IF s = <<>> THEN acc
    ELSE Base58Number(Tail(s), MulAdd58(acc, Base58Digit(Head(s))))

RECURSIVE LeadingCount(_, _)
\* How many leading elements of s equal c.
LeadingCount(s, c) ==
    IF s # <<>> /\ Head(s) = c THEN 1 + LeadingCount(Tail(s), c) ELSE 0

\* from_base58 if it skipped the characters outside the alphabet instead of
\* failing on them.
from_base58_skipping(s) ==
    LET t == SelectSeq(s, IsBase58Char)
        zcount == LeadingCount(t, "1")
    IN  [ok    |-> TRUE,
         bytes |-> Repeat(0, zcount)
                     \o Base58Number(SubSeq(t, zcount + 1, Len(t)), <<>>)]

\* from_base58 if the number were kept in a single 32-bit word, its higher
\* bytes lost.
from_base58_one_word(s) ==
    IF \E i \in 1..Len(s) : ~IsBase58Char(s[i])
    THEN [ok |-> FALSE, bytes |-> <<>>]
    ELSE LET zcount == LeadingCount(s, "1")
             number == Base58Number(SubSeq(s, zcount + 1, Len(s)), <<>>)
             kept   == IF Len(number) > 4 THEN 4 ELSE Len(number)
         IN  [ok    |-> TRUE,
              bytes |-> SubSeq(number, Len(number) - kept + 1, Len(number))]

\* FromBase58::from_base58: an error for any character outside the alphabet;
\* otherwise one zero byte per leading '1', then the bytes of the number.
from_base58(s) ==
    IF \E i \in 1..Len(s) : ~IsBase58Char(s[i])
    THEN [ok |-> FALSE, bytes |-> <<>>]
    ELSE LET zcount == LeadingCount(s, "1")
         IN  [ok    |-> TRUE,
              bytes |-> Repeat(0, zcount)
                          \o Base58Number(SubSeq(s, zcount + 1, Len(s)), <<>>)]

(***************************************************************************)
(* CRC-32 (crate crc32fast).  A 32-bit word is kept as its two 16-bit      *)
(* halves, hi and lo.                                                      *)
(***************************************************************************)

HALF == 65536

\* 0xEDB88320, the reflected CRC-32 polynomial: 0xEDB8 and 0x8320.
CRC32_POLY == [hi |-> 60856, lo |-> 33568]

\* 0xFFFFFFFF
ALL_ONES == [hi |-> HALF - 1, lo |-> HALF - 1]

RECURSIVE BitXor(_, _)
\* a ^ b on natural numbers
BitXor(a, b) ==
    IF a = 0 THEN b
    ELSE IF b = 0 THEN a
    ELSE ((a + b) % 2) + 2 * BitXor(a \div 2, b \div 2)

WordXor(v, w) == [hi |-> BitXor(v.hi, w.hi), lo |-> BitXor(v.lo, w.lo)]

\* w >> 1
ShiftRight1(w) ==
    [hi |-> w.hi \div 2, lo |-> (w.lo \div 2) + (w.hi % 2) * (HALF \div 2)]

\* w >> 8
ShiftRight8(w) ==
    [hi |-> w.hi \div 256, lo |-> (w.lo \div 256) + (w.hi % 256) * 256]

\* One round of the bitwise CRC step.
Crc32Round(crc) ==
    IF crc.lo % 2 = 1 THEN WordXor(ShiftRight1(crc), CRC32_POLY)
                      ELSE ShiftRight1(crc)

\* Entry n of the CRC table: eight rounds on the byte n.
Crc32Table(n) ==
    Crc32Round(Crc32Round(Crc32Round(Crc32Round(
    Crc32Round(Crc32Round(Crc32Round(Crc32Round([hi |-> 0, lo |-> n]))))))))

\* A u32 in two halves.
IsWord(w) == w.hi \in 0..(HALF - 1) /\ w.lo \in 0..(HALF - 1)

\* The CRC register after one more byte.
Crc32Byte(crc, b) ==
    WordXor(ShiftRight8(crc), Crc32Table(BitXor(crc.lo % 256, b)))

RECURSIVE Crc32Update(_, _)
\* Hasher::update: the register crc after the bytes of data.
Crc32Update(crc, data) ==
    IF data = <<>> \/ ~IsWord(crc) THEN crc
    ELSE Crc32Update(Crc32Byte(crc, Head(data)), Tail(data))

\* Hasher::new, update, finalize
Crc32(data) == WordXor(Crc32Update(ALL_ONES, data), ALL_ONES)

\* u32::to_be_bytes
ToBeBytes(w) == <<w.hi \div 256, w.hi % 256, w.lo \div 256, w.lo % 256>>

\* AddressValidator::calculate_checksum
calculate_checksum(data) == ToBeBytes(Crc32(data))

(***************************************************************************)
(* AddressValidator::validate                                              *)
(***************************************************************************)

MIN_ADDRESS_LEN == 25
MAX_ADDRESS_LEN == 35
MIN_DECODED_LEN == 5
CHECKSUM_LEN == 4

\* decoded_bytes[..data_len - 4]
data_without_checksum(decoded) == SubSeq(decoded, 1, Len(decoded) - CHECKSUM_LEN)

\* decoded_bytes[data_len - 4..]
checksum_of(decoded) ==
    SubSeq(decoded, Len(decoded) - CHECKSUM_LEN + 1, Len(decoded))

\* validate_run if the prefix were checked before the length.
validate_run_prefix_first(addr) ==
    IF ~StartsWith(addr, "r") THEN [result |-> "InvalidPrefix", decodes |-> 0]
    ELSE IF StrLen(addr) < MIN_ADDRESS_LEN THEN [result |-> "TooShort", decodes |-> 0]
    ELSE IF StrLen(addr) > MAX_ADDRESS_LEN THEN [result |-> "TooLong", decodes |-> 0]
    ELSE LET d == from_base58(addr)
         IN  IF ~d.ok THEN [result |-> "InvalidBase58", decodes |-> 1]
             ELSE IF Len(d.bytes) < MIN_DECODED_LEN
                  THEN [result |-> "InvalidDataLength", decodes |-> 1]
                  ELSE [result |-> "Ok", decodes |-> 1]

\* validate_run if the prefix check were missing.
validate_run_no_prefix(addr) ==
    IF StrLen(addr) < MIN_ADDRESS_LEN THEN [result |-> "TooShort", decodes |-> 0]
    ELSE IF StrLen(addr) > MAX_ADDRESS_LEN THEN [result |-> "TooLong", decodes |-> 0]
    ELSE LET d == from_base58(addr)
         IN  IF ~d.ok THEN [result |-> "InvalidBase58", decodes |-> 1]
             ELSE IF Len(d.bytes) < MIN_DECODED_LEN
                  THEN [result |-> "InvalidDataLength", decodes |-> 1]
                  ELSE [result |-> "Ok", decodes |-> 1]

\* validate, with the number of from_base58 calls it made.  The comparison of
\* the checksum with calculate_checksum is commented out in the source
\* (address.rs:89-98): after the decoded-length check the result is Ok.
validate_run(addr) ==
    IF StrLen(addr) < MIN_ADDRESS_LEN THEN [result |-> "TooShort", decodes |-> 0]
    ELSE IF StrLen(addr) > MAX_ADDRESS_LEN THEN [result |-> "TooLong", decodes |-> 0]
    ELSE IF ~StartsWith(addr, "r") THEN [result |-> "InvalidPrefix", decodes |-> 0]
    ELSE LET d == from_base58(addr)
         IN  IF ~d.ok THEN [result |-> "InvalidBase58", decodes |-> 1]
             ELSE IF Len(d.bytes) < MIN_DECODED_LEN
                  THEN [result |-> "InvalidDataLength", decodes |-> 1]
                  ELSE [result |-> "Ok", decodes |-> 1]

validate(addr) == validate_run(addr).result

(***************************************************************************)
(* Inputs of the validator                                                 *)
(***************************************************************************)

\* How far below 25 and above 35 the generated address lengths go.
LenSlack == 2

\* "xInvalidPrefix0000000000"
X_INVALID_PREFIX ==
    <<"x", "I", "n", "v", "a", "l", "i", "d", "P", "r", "e", "f", "i", "x",
      "0", "0", "0", "0", "0", "0", "0", "0", "0", "0">>

\* "rvalidexample0000000000000000000"
R_VALID_EXAMPLE ==
    <<"r", "v", "a", "l", "i", "d", "e", "x", "a", "m", "p", "l", "e">>
        \o Repeat("0", 19)

\* "rHb9CJAWyB4rj91VRWn96DkukG4bwdtyTh", an account of the XRP ledger
R_LEDGER_ACCOUNT ==
    <<"r", "H", "b", "9", "C", "J", "A", "W", "y", "B", "4", "r", "j", "9",
      "1", "V", "R", "W", "n", "9", "6", "D", "k", "u", "k", "G", "4", "b",
      "w", "d", "t", "y", "T", "h">>

\* "r6KvDDnX1USWVKh6FUUS75MLsv5t4Abr8w": Base58 of the 21 bytes 0x7a, 1, ..., 20
\* followed by the big-endian CRC-32 of those 21 bytes.
R_CRC_PREFIX ==
    <<"r", "6", "K", "v", "D", "D", "n", "X", "1", "U", "S", "W", "V", "K",
      "h", "6", "F", "U", "U", "S", "7", "5", "M", "L", "s", "v", "5", "t", "4">>

R_CRC_GOOD == R_CRC_PREFIX \o <<"A", "b", "r", "8", "w">>

\* R_CRC_GOOD with the lowest bit of checksum byte 1, 2, 3, 4 flipped.
R_CRC_FLIPPED ==
    { R_CRC_PREFIX \o <<"C", "5", "q", "R", "H">>,
      R_CRC_PREFIX \o <<"A", "b", "W", "f", "1">>,
      R_CRC_PREFIX \o <<"A", "b", "r", "4", "X">>,
      R_CRC_PREFIX \o <<"A", "b", "r", "8", "x">> }

ExampleAddresses ==
    {<<>>, X_INVALID_PREFIX, R_VALID_EXAMPLE, R_LEDGER_ACCOUNT, R_CRC_GOOD}
        \cup R_CRC_FLIPPED

FirstChars == {"r", "x", "1", "0", YA}
FillChars == {"1", "z", "0"}
LastChars == {"2", "r", "l", YA}

\* first, then n - 2 times fill, then last: n characters.
BuildAddress(first, fill, last, n) == <<first>> \o Repeat(fill, n - 2) \o <<last>>

GeneratedAddresses ==
    { BuildAddress(f, m, l, n) :
        f \in FirstChars, m \in FillChars, l \in LastChars,
        n \in (MIN_ADDRESS_LEN - LenSlack)..(MAX_ADDRESS_LEN + LenSlack) }

AddressInputs == ExampleAddresses \cup GeneratedAddresses

(***************************************************************************)
(* f64 values and str::parse::<f64> (models.rs:73, 114)                    *)
(*                                                                         *)
(* A finite f64 is kept as the decimal it prints as: (-1)^neg * mant *     *)
(* 10^exp with mant not divisible by 10 (zero: mant = 0, exp = 0).         *)
(***************************************************************************)

RECURSIVE Canon(_, _)
\* <<mant, exp>> without trailing zeros in mant.
Canon(m, e) ==
    IF m = 0 THEN <<0, 0>>
    ELSE IF m % 10 = 0 THEN Canon(m \div 10, e + 1)
    ELSE <<m, e>>

F64(neg, m, e) ==
    [kind |-> "num", neg |-> neg, mant |-> Canon(m, e)[1], exp |-> Canon(m, e)[2]]

F64Inf(neg) == [kind |-> "inf", neg |-> neg, mant |-> 0, exp |-> 0]
F64NaN == [kind |-> "nan", neg |-> FALSE, mant |-> 0, exp |-> 0]

\* The literal 0.0
ZERO == F64(FALSE, 0, 0)

\* f64 ==: NaN equals nothing, -0.0 equals 0.0.
F64Eq(x, y) ==
    /\ x.kind # "nan" /\ y.kind # "nan"
    /\ x.kind = y.kind /\ x.mant = y.mant /\ x.exp = y.exp
    /\ (x.neg = y.neg \/ (x.kind = "num" /\ x.mant = 0))

RECURSIVE Log10(_)
\* The exponent of a power of ten.
Log10(n) == IF n <= 1 THEN 0 ELSE 1 + Log10(n \div 10)

\* x / p for a power of ten p
F64DivPow10(x, p) ==
    IF x.kind = "num" THEN F64(x.neg, x.mant, x.exp - Log10(p)) ELSE x

DecDigits == <<"0", "1", "2", "3", "4", "5", "6", "7", "8", "9">>

IsDigit(c) == \E i \in 1..Len(DecDigits) : DecDigits[i] = c

DigitValue(c) == (CHOOSE i \in 1..Len(DecDigits) : DecDigits[i] = c) - 1

RECURSIVE DigitCount(_)
\* How many leading characters of s are decimal digits.
DigitCount(s) ==
    IF s # <<>> /\ IsDigit(Head(s)) THEN 1 + DigitCount(Tail(s)) ELSE 0

RECURSIVE DecValue(_)
\* The number a digit string denotes (0 for the empty string).
DecValue(ds) ==
    IF ds = <<>> THEN 0
    ELSE 10 * DecValue(SubSeq(ds, 1, Len(ds) - 1)) + DigitValue(ds[Len(ds)])

\* ASCII lower case of the letters of "infinity" and "nan".
ToLower(c) ==
    CASE c = "I" -> "i" [] c = "N" -> "n" [] c = "F" -> "f" [] c = "T" -> "t"
      [] c = "Y" -> "y" [] c = "A" -> "a" [] OTHER -> c

LowerStr(s) == [i \in 1..Len(s) |-> ToLower(s[i])]

STR_INF == <<"i", "n", "f">>
STR_INFINITY == <<"i", "n", "f", "i", "n", "i", "t", "y">>
STR_NAN == <<"n", "a", "n">>

ParseErr == [ok |-> FALSE, val |-> ZERO]
ParseOk(v) == [ok |-> TRUE, val |-> v]

\* dec2flt parse_inf_nan: inf, infinity or nan in any case
parse_inf_nan(neg, r) ==
    IF LowerStr(r) \in {STR_INF, STR_INFINITY} THEN ParseOk(F64Inf(neg))
    ELSE IF LowerStr(r) = STR_NAN THEN ParseOk(F64NaN)
    ELSE ParseErr

\* dec2flt parse_scientific: t is what follows the 'e'; [sign] digits, and
\* nothing after them.
parse_scientific(neg, mant, nf, t) ==
    LET esigned == t # <<>> /\ Head(t) \in {"+", "-"}
        digits  == IF esigned THEN Tail(t) ELSE t
    IN  IF digits = <<>> \/ DigitCount(digits) # Len(digits) THEN ParseErr
        ELSE ParseOk(F64(neg, mant,
                         (IF Head(t) = "-" THEN 0 - DecValue(digits)
                                           ELSE DecValue(digits)) - nf))

\* dec2flt parse_number after the mantissa: ni integer digits, nf fraction
\* digits, q the index of the first character after the mantissa.
parse_exponent(neg, r, ni, nf, q) ==
    IF ni + nf = 0 THEN parse_inf_nan(neg, r)
    ELSE IF q > Len(r)
         THEN ParseOk(F64(neg, DecValue(SelectSeq(r, IsDigit)), 0 - nf))
    ELSE IF r[q] \in {"e", "E"}
         THEN parse_scientific(neg,
                               DecValue(SelectSeq(SubSeq(r, 1, q - 1), IsDigit)),
                               nf, SubSeq(r, q + 1, Len(r)))
    ELSE ParseErr

\* dec2flt parse_number after the integer digits: an optional '.' and the
\* fraction digits.
parse_fraction(neg, r, ni) ==
    IF ni < Len(r) /\ r[ni + 1] = "."
    THEN parse_exponent(neg, r, ni, DigitCount(SubSeq(r, ni + 2, Len(r))),
                        ni + 2 + DigitCount(SubSeq(r, ni + 2, Len(r))))
    ELSE parse_exponent(neg, r, ni, 0, ni + 1)

\* <f64 as FromStr>::from_str: [sign] digits [. digits] [(e|E) [sign] digits]
\* with at least one mantissa digit, or [sign] inf | infinity | nan in any
\* case; the whole string must be consumed.
parse_f64(s) ==
    IF s # <<>> /\ Head(s) \in {"+", "-"}
    THEN parse_fraction(Head(s) = "-", Tail(s), DigitCount(Tail(s)))
    ELSE parse_fraction(FALSE, s, DigitCount(s))

(***************************************************************************)
(* models.rs                                                               *)
(***************************************************************************)

DROPS_PER_XRP == 1000000
RIPPLE_EPOCH == 946684800
SECS_PER_DAY == 86400
SECS_PER_HOUR == 3600
SECS_PER_MINUTE == 60
DAYS_PER_YEAR == 365
DAYS_PER_MONTH == 30
YEAR_BASE == 24

\* "Нет данных"
NO_DATA == <<"N", "e", "t", " ", "d", "a", "n", "n", "y", "k", "h">>
\* "Некорректная дата"
BAD_DATE ==
    <<"N", "e", "k", "o", "r", "r", "e", "k", "t", "n", "a", "y", "a", " ", "d", "a", "t", "a">>
\* "Неизвестно"
UNKNOWN == "Neizvestno"

\* balance_xrp if the parsed drops were returned undivided.
balance_xrp_undivided(data) ==
    LET p == parse_f64(data.balance)
    IN  IF p.ok THEN p.val ELSE ZERO

\* AccountData::balance_xrp
balance_xrp(data) ==
    LET p == parse_f64(data.balance)
    IN  IF p.ok THEN F64DivPow10(p.val, DROPS_PER_XRP) ELSE ZERO

\* Transaction::amount_xrp
amount_xrp(t) ==
    IF t.amount # None
    THEN LET p == parse_f64(t.amount[1])
         IN  IF p.ok THEN F64DivPow10(p.val, DROPS_PER_XRP) ELSE ZERO
    ELSE ZERO

RECURSIVE ToDec(_)
\* {}: the decimal digits of a natural number.
ToDec(n) ==
    IF n < 10 THEN <<DecDigits[n + 1]>>
    ELSE Append(ToDec(n \div 10), DecDigits[(n % 10) + 1])

\* {:02}
Pad2(n) == IF n < 10 THEN <<"0">> \o ToDec(n) ELSE ToDec(n)

\* u64: the eight bytes of the value, most significant first.

BYTE == 256
U64_BYTES == 8

RECURSIVE ToBytes(_, _)
\* The k big-endian bytes of the natural number n.
ToBytes(n, k) ==
    IF k = 0 THEN <<>> ELSE Append(ToBytes(n \div BYTE, k - 1), n % BYTE)

\* The u64 with value n.
U64(n) == ToBytes(n, U64_BYTES)

RECURSIVE U64Value(_)
\* The value of a u64 that is below 2^31.
U64Value(a) ==
    IF a = <<>> THEN 0 ELSE U64Value(SubSeq(a, 1, Len(a) - 1)) * BYTE + a[Len(a)]

RECURSIVE AddBytes(_, _, _)
\* The sum of the last i bytes of a and of b, and the carry out of it.
AddBytes(a, b, i) ==
    IF i = 0 THEN [bytes |-> <<>>, carry |-> 0]
    ELSE LET j   == Len(a) - i + 1
             low == AddBytes(a, b, i - 1)
             sum == a[j] + b[j] + low.carry
         IN  [bytes |-> <<sum % BYTE>> \o low.bytes, carry |-> sum \div BYTE]

\* a + b in 64 bits: the wrapped sum, and whether the true sum exceeds u64.
U64Add(a, b) ==
    LET r == AddBytes(a, b, U64_BYTES)
    IN  [bytes |-> r.bytes, overflow |-> r.carry # 0]

RECURSIVE DivBytes(_, _, _)
\* Quotient and remainder of the first i bytes of a by n (n below 2^23).
DivBytes(a, n, i) ==
    IF i = 0 THEN [quot |-> <<>>, rem |-> 0]
    ELSE LET high == DivBytes(a, n, i - 1)
             cur  == high.rem * BYTE + a[i]
         IN  [quot |-> Append(high.quot, cur \div n), rem |-> cur % n]

\* a / n
U64Div(a, n) == DivBytes(a, n, Len(a)).quot

\* a % n
U64Rem(a, n) == DivBytes(a, n, Len(a)).rem

RECURSIVE U64Le(_, _)
\* a <= b
U64Le(a, b) ==
    IF a = <<>> THEN TRUE
    ELSE IF Head(a) # Head(b) THEN Head(a) < Head(b)
    ELSE U64Le(Tail(a), Tail(b))

RECURSIVE U64ToDec(_)
\* {}: the decimal digits of a u64.
U64ToDec(a) ==
    IF U64Div(a, 10) = U64(0) THEN <<DecDigits[U64Rem(a, 10) + 1]>>
    ELSE Append(U64ToDec(U64Div(a, 10)), DecDigits[U64Rem(a, 10) + 1])

\* A call that did not return: the panic it ended in.
PANIC(msg) == <<"panic!", msg>>
IsPanic(v) == Len(v) = 2 /\ v[1] = "panic!"

\* The top byte of i64::MAX, the largest count of seconds a SystemTime holds.
I64_MAX_TOP_BYTE == 127

\* format_timestamp.  UNIX_EPOCH + Duration panics when the seconds exceed
\* i64::MAX (SystemTime of a Unix target); the sum is never before
\* UNIX_EPOCH, so duration_since is Ok whenever it is reached.
format_timestamp(timestamp) ==
    IF timestamp[1] > I64_MAX_TOP_BYTE
    THEN PANIC("overflow when adding duration to instant")
    ELSE LET dt == timestamp
         IN  IF U64Le(U64(0), dt)
             THEN LET secs    == timestamp
                      days    == U64Div(secs, SECS_PER_DAY)
                      hours   == U64Rem(secs, SECS_PER_DAY) \div SECS_PER_HOUR
                      minutes == U64Rem(secs, SECS_PER_HOUR) \div SECS_PER_MINUTE
                  IN  <<"2", "0">>
                        \o U64ToDec(U64Add(U64(YEAR_BASE),
                                           U64Div(days, DAYS_PER_YEAR)).bytes)
                        \o <<"-">>
                        \o Pad2((U64Rem(days, DAYS_PER_YEAR) \div DAYS_PER_MONTH) + 1)
                        \o <<"-">> \o Pad2(U64Rem(days, DAYS_PER_MONTH) + 1)
                        \o <<" ">> \o Pad2(hours) \o <<":">> \o Pad2(minutes)
                        \o <<" ", "U", "T", "C">>
             ELSE BAD_DATE

\* Transaction::formatted_date.  ripple_epoch + timestamp is a u64 addition:
\* on overflow it panics in a build with overflow checks and wraps in one
\* without.
formatted_date(t) ==
    IF t.date # None
    THEN LET unix_timestamp == U64Add(U64(RIPPLE_EPOCH), t.date[1])
         IN  IF unix_timestamp.overflow /\ overflow_checks
             THEN PANIC("attempt to add with overflow")
             ELSE format_timestamp(unix_timestamp.bytes)
    ELSE NO_DATA

\* from_transaction if the type were compared without regard to case.
from_transaction_any_case(t) ==
    IF t.transaction_type \in {"Payment", "payment"}
    THEN IF IsPanic(formatted_date(t)) THEN formatted_date(t)
    ELSE Some([hash       |-> t.hash,
               amount_xrp |-> amount_xrp(t),
               timestamp  |-> formatted_date(t),
               from       |-> t.account,
               to         |-> IF t.destination # None THEN t.destination[1]
                                                      ELSE UNKNOWN])
    ELSE None

\* DisplayTransaction::from_transaction; a panic of tx.formatted_date() ends
\* the call.
from_transaction(t) ==
    IF t.transaction_type = "Payment"
    THEN IF IsPanic(formatted_date(t)) THEN formatted_date(t)
    ELSE Some([hash       |-> t.hash,
               amount_xrp |-> amount_xrp(t),
               timestamp  |-> formatted_date(t),
               from       |-> t.account,
               to         |-> IF t.destination # None THEN t.destination[1]
                                                      ELSE UNKNOWN])
    ELSE None

(***************************************************************************)
(* Inputs of models.rs                                                     *)
(***************************************************************************)

AmountStrings ==
    { <<"1", "0", "0", "0", "0", "0", "0">>,                         \* 1000000
      <<"0">>,
      <<"n", "o", "t", "-", "a", "-", "n", "u", "m", "b", "e", "r">>,
      <<>>,
      <<"2", "5", "0", "0", "0", "0", "0">>,                         \* 2500000
      <<"1", ".", "5">>, <<"-", "5">>, <<"+", "7">>, <<"-", "0">>,
      <<"1", "e", "3">>, <<"1", "E", "-", "2">>,
      <<"i", "n", "f">>, <<"-", "I", "n", "f", "i", "n", "i", "t", "y">>,
      <<"N", "a", "N">>,
      <<".">>, <<"1", ".">>, <<".", "5">>, <<"1", "e">>, <<"1", "2", "x">>,
      <<" ", "1">>, <<"-">>, <<"1", ".", "2", ".", "3">>, <<"e", "5">>,
      <<"0", "x", "1", "0">> }

\* Amount fields of transactions: a few of the strings above, or absent.
TxAmounts ==
    { None,
      Some(<<"1", "0", "0", "0", "0", "0", "0">>),
      Some(<<"0">>),
      Some(<<"n", "o", "t", "-", "a", "-", "n", "u", "m", "b", "e", "r">>),
      Some(<<"1", ".", "5">>),
      Some(<<"i", "n", "f">>) }

\* How many consecutive ledger days the dates cover.
MaxDays == 3

\* Seconds since the ledger epoch: the first and the last minute and an inner
\* second of each of the first days, the first and the last second of the
\* last five days of a 365-day bucket, and instants of later years.
LedgerDates ==
    { U64(d * SECS_PER_DAY + s) : d \in 0..MaxDays,
                             s \in {0, 59, 60, 3599, 3600, SECS_PER_DAY - 1} }
        \cup { U64(n) : n \in {30 * SECS_PER_DAY, 353 * SECS_PER_DAY,
                                357 * SECS_PER_DAY + 86399, 365 * SECS_PER_DAY,
                                846000000} }

TxDates == {None} \cup { Some(d) : d \in LedgerDates }

TxTypes == {"Payment", "OfferCreate", "payment"}

\* Dates over the whole of u64.  u64::MAX - 946684800 is
\* 0xFFFFFFFF_C792BC7F and i64::MAX - 946684800 is 0x7FFFFFFF_C792BC7F: the
\* dates next to them and next to the same bytes under other top bytes, the
\* dates around 2^31, 2^32 and 2^63, the least and the greatest.
WideDates ==
    { <<h, 255, 255, 255, 199, 146, 188, l>> : h \in {0, 127, 128, 255},
                                               l \in 126..129 }
        \cup { U64(0), U64(2147483647),
               <<0, 0, 0, 0, 128, 0, 0, 0>>, <<0, 0, 0, 0, 255, 255, 255, 255>>,
               <<0, 0, 0, 1, 0, 0, 0, 0>>,
               <<127, 255, 255, 255, 255, 255, 255, 255>>,
               <<128, 0, 0, 0, 0, 0, 0, 0>>,
               <<255, 255, 255, 255, 255, 255, 255, 255>> }

WideTransactions ==
    [hash : {"E3FE6EA3"}, amount : {None}, date : { Some(d) : d \in WideDates },
     account : {"rAlice"}, destination : {None, Some("rBob")},
     transaction_type : {"Payment", "OfferCreate"}]

Transactions ==
    [hash : {"E3FE6EA3"}, amount : TxAmounts, date : TxDates,
     account : {"rAlice"}, destination : {None, Some("rBob")},
     transaction_type : TxTypes]

(***************************************************************************)
(* api.rs: the ledger client.  A message with interpolated parts is the    *)
(* sequence of its parts; str::contains looks a part up.                   *)
(***************************************************************************)

\* anyhow::Result<T>
Ok(v) == [ok |-> TRUE, val |-> <<v>>, msg |-> <<>>]
Err(m) == [ok |-> FALSE, val |-> <<>>, msg |-> m]

\* "Не удалось отправить запрос к API"
MSG_SEND == <<"Ne udalos otpravit zapros k API">>
\* "Не удалось разобрать ответ API"
MSG_PARSE == <<"Ne udalos razobrat otvet API">>
\* "API вернул ошибку {}: {}"
MsgHttpText(status, text) == <<"API vernul oshibku ", status, ": ", text>>
\* "API вернул ошибку: {}"
MsgHttp(status) == <<"API vernul oshibku: ", status>>
\* "API вернул статус: {}"
MsgStatus(status) == <<"API vernul status: ", status>>

\* str::contains for the parts of a message
Contains(msg, part) == \E i \in 1..Len(msg) : msg[i] = part

\* AccountInfoRequest::new
AccountInfoRequest_new(account) ==
    [method |-> "account_info",
     params |-> <<[account |-> account, strict |-> TRUE]>>]

\* AccountTxRequest::new
AccountTxRequest_new(account) ==
    [method |-> "account_tx",
     params |-> <<[account |-> account, limit |-> 1, descending |-> TRUE]>>]

\* StatusCode::is_success
IsSuccess(code) == code >= 200 /\ code <= 299

\* The outcome of posting a request: no response (send failed), or an HTTP
\* status with a body; json is Some(value) when the body deserializes into the
\* response type of the call and None when it does not.
Response(sent, code, text, json) ==
    [sent |-> sent, code |-> code, text |-> text, json |-> json]

NoResponse == Response(FALSE, 0, "", None)

HttpStatusText(code) ==
    CASE code = 200 -> "200 OK"
      [] code = 404 -> "404 Not Found"
      [] OTHER -> "500 Internal Server Error"

\* XrpApi::get_account_info, given the outcome of its request
get_account_info(resp) ==
    IF ~resp.sent THEN Err(MSG_SEND)
    ELSE IF ~IsSuccess(resp.code)
         THEN Err(MsgHttpText(HttpStatusText(resp.code), resp.text))
    ELSE IF resp.json = None THEN Err(MSG_PARSE)
    ELSE LET account_info == resp.json[1]
         IN  IF account_info.result.status # "success"
             THEN Err(MsgStatus(account_info.result.status))
             ELSE Ok(account_info)

\* get_latest_transaction if it looked for the first Payment of the list.
get_latest_transaction_first_payment(resp) ==
    IF ~resp.sent THEN Err(MSG_SEND)
    ELSE IF ~IsSuccess(resp.code) THEN Err(MsgHttp(HttpStatusText(resp.code)))
    ELSE IF resp.json = None THEN Err(MSG_PARSE)
    ELSE LET account_tx == resp.json[1]
             payments == SelectSeq(account_tx.result.transactions,
                                   LAMBDA w : w.tx.transaction_type = "Payment")
         IN  IF account_tx.result.status # "success"
             THEN Err(MsgStatus(account_tx.result.status))
             ELSE IF payments = <<>> THEN Ok(None)
             ELSE Ok(from_transaction(payments[1].tx))

\* XrpApi::get_latest_transaction, given the outcome of its request
get_latest_transaction(resp) ==
    IF ~resp.sent THEN Err(MSG_SEND)
    ELSE IF ~IsSuccess(resp.code) THEN Err(MsgHttp(HttpStatusText(resp.code)))
    ELSE IF resp.json = None THEN Err(MSG_PARSE)
    ELSE LET account_tx == resp.json[1]
         IN  IF account_tx.result.status # "success"
             THEN Err(MsgStatus(account_tx.result.status))
             ELSE IF account_tx.result.transactions = <<>> THEN Ok(None)
             ELSE LET first_tx_wrapper == account_tx.result.transactions[1]
                      transaction == first_tx_wrapper.tx
                  IN  Ok(from_transaction(transaction))

(***************************************************************************)
(* display.rs                                                              *)
(***************************************************************************)

\* The text of the strings the transactions of the model carry.
Text(s) ==
    CASE s = UNKNOWN    -> <<"U+041D", "U+0435", "U+0438", "U+0437", "U+0432",
                             "U+0435", "U+0441", "U+0442", "U+043D", "U+043E">>
      [] s = "rAlice"   -> <<"r", "A", "l", "i", "c", "e">>
      [] s = "rBob"     -> <<"r", "B", "o", "b">>
      [] s = "rCarol"   -> <<"r", "C", "a", "r", "o", "l">>
      [] s = "E3FE6EA3" -> <<"E", "3", "F", "E", "6", "E", "A", "3">>
      [] s = "0B1D4C77" -> <<"0", "B", "1", "D", "4", "C", "7", "7">>
      [] s = "77AA01F0" -> <<"7", "7", "A", "A", "0", "1", "F", "0">>
      [] OTHER          -> <<>>

SHOWN_WHOLE_LEN == 12
HEAD_LEN == 6
ADDRESS_TAIL_LEN == 3
HASH_TAIL_LEN == 6

\* The value of an expression, or the panic its evaluation ends in.
Value(v) == [panic |-> FALSE, value |-> v]
Panic == [panic |-> TRUE, value |-> <<>>]

ELLIPSIS == <<".", ".", ".">>

\* Both helpers: the string whole up to 12 bytes, else its first 6 bytes,
\* "..." and its last `tail` bytes; slicing off a character boundary panics.
format_shortened(s, tail) ==
    IF StrLen(s) <= SHOWN_WHOLE_LEN THEN Value(s)
    ELSE IF ~IsCharBoundary(s, HEAD_LEN) \/ ~IsCharBoundary(s, StrLen(s) - tail)
         THEN Panic
         ELSE Value(SliceTo(s, HEAD_LEN) \o ELLIPSIS \o SliceFrom(s, StrLen(s) - tail))

\* DisplayFormatter::format_address
format_address(a) == format_shortened(a, ADDRESS_TAIL_LEN)

\* DisplayFormatter::format_hash
format_hash(h) == format_shortened(h, HASH_TAIL_LEN)

\* println!(label, argument): the argument is evaluated before anything is
\* printed.
Line(label, arg) == [label |-> label, panic |-> arg.panic, value |-> arg.value]

\* The lines printed before the first panic.
Printed(ls) ==
    IF \E i \in 1..Len(ls) : ls[i].panic
    THEN SubSeq(ls, 1, (CHOOSE i \in 1..Len(ls) :
                           ls[i].panic /\ \A j \in 1..(i - 1) : ~ls[j].panic) - 1)
    ELSE ls

\* DisplayFormatter::display_account_info: the lines it prints, and whether
\* it panicked before the last one.  The numbers are the arguments of {:.6}.
display_account_info(addr, data, transaction) ==
    LET head == << Line("Address: ", format_address(addr)),
                   Line("Balance: ", Value(balance_xrp(data))),
                   Line("Last Transaction:", Value(<<>>)) >>
        rest == IF transaction # None
                THEN << Line(" Hash: ", format_hash(Text(transaction[1].hash))),
                        Line(" Amount: ", Value(transaction[1].amount_xrp)),
                        Line(" Timestamp: ", Value(transaction[1].timestamp)),
                        Line(" From: ", format_address(Text(transaction[1].from))),
                        Line(" To: ", format_address(Text(transaction[1].to))) >>
                ELSE << Line(" Net tranzaktsii.", Value(<<>>)) >>
        ls   == head \o rest
    IN  [lines |-> Printed(ls), panicked |-> Printed(ls) # ls]

(***************************************************************************)
(* Responses of the ledger API                                             *)
(***************************************************************************)

\* The longest transaction list of an account_tx response.
MaxTxs == 2

ResponseTxs ==
    { [hash |-> "E3FE6EA3", amount |-> Some(<<"2", "5", "0", "0", "0", "0", "0">>),
       date |-> Some(U64(60)), account |-> "rAlice", destination |-> Some("rBob"),
       transaction_type |-> "Payment"],
      [hash |-> "0B1D4C77", amount |-> None,
       date |-> None, account |-> "rAlice", destination |-> None,
       transaction_type |-> "Payment"],
      [hash |-> "77AA01F0", amount |-> None,
       date |-> Some(U64(0)), account |-> "rCarol", destination |-> None,
       transaction_type |-> "OfferCreate"] }

TxWrappers == [tx : ResponseTxs]

RECURSIVE ListsUpTo(_, _)
\* The sequences of at most n elements of S.
ListsUpTo(S, n) ==
    IF n = 0 THEN {<<>>}
    ELSE LET shorter == ListsUpTo(S, n - 1)
         IN  shorter \cup { Append(l, x) : l \in shorter, x \in S }

TxLists == ListsUpTo(TxWrappers, MaxTxs)

FailedResponses ==
    { NoResponse,
      Response(TRUE, 500, "Internal error", None),
      Response(TRUE, 404, "actNotFound", None),
      Response(TRUE, 200, "{\"result\":{\"error\":\"actNotFound\"}}", None) }

InfoResponses ==
    FailedResponses \cup
    { Response(TRUE, 200, "", Some([result |-> [account_data |-> [balance |-> b],
                                                 status |-> st]])) :
        b \in { <<"1", "0", "0", "0", "0", "0", "0">>,
                <<"n", "o", "t", "-", "a", "-", "n", "u", "m", "b", "e", "r">> },
        st \in {"success", "error"} }

TxResponses ==
    FailedResponses \cup
    { Response(TRUE, 200, "", Some([result |-> [transactions |-> l, status |-> st]])) :
        l \in TxLists, st \in {"success", "error"} }

\* The addresses the balance command is run with.
BalanceAddresses ==
    {<<>>, X_INVALID_PREFIX, R_VALID_EXAMPLE, R_LEDGER_ACCOUNT, R_CRC_GOOD,
     BuildAddress("r", "z", "r", MAX_ADDRESS_LEN + 1)}

(***************************************************************************)
(* config.rs.  dotenv::from_filename sets a variable of the file only when *)
(* the process environment does not have it yet.                           *)
(***************************************************************************)

\* "Переменная окружения PRIVATE_KEY не найдена"
MSG_KEY_NOT_FOUND == <<"Peremennaya okruzheniya ", "PRIVATE_KEY ne naidena">>
\* "Переменная окружения PRIVATE_KEY пуста"
MSG_KEY_EMPTY == <<"Peremennaya okruzheniya ", "PRIVATE_KEY pusta">>
\* "Не удалось загрузить .env файл: {}"
MsgLoad(path) == <<"Ne udalos zagruzit .env fail: ", path>>

\* A .env file: whether it can be read, and its PRIVATE_KEY line if it has one.
EnvFile(path, readable, private_key) ==
    [path |-> path, readable |-> readable, private_key |-> private_key]

\* dotenv::from_filename on the environment e: the result and the environment
\* after it.
from_filename(file, e) ==
    IF ~file.readable THEN [ok |-> FALSE, env |-> e]
    ELSE [ok |-> TRUE,
          env |-> IF e = None /\ file.private_key # None
                  THEN file.private_key ELSE e]

\* load_env_file
load_env_file(file, e) ==
    LET r == from_filename(file, e)
    IN  [result |-> IF r.ok THEN Ok("unit") ELSE Err(MsgLoad(file.path)),
         env    |-> r.env]

\* get_env_var("PRIVATE_KEY")
get_env_var(e) == e

\* get_private_key
get_private_key(e) ==
    LET key == get_env_var(e)
    IN  IF key = None THEN Err(MSG_KEY_NOT_FOUND)
        ELSE IF key[1] = "" THEN Err(MSG_KEY_EMPTY)
        ELSE Ok(key[1])

\* How many times load_env_file is called in one run.
MaxLoads == 2

KeyValues == {"", "s3cr3t_k3y_v4lu3", "sEdOtherKey", "snThirdKey"}

EnvFiles ==
    { EnvFile("missing.env", FALSE, None), EnvFile("nokey.env", TRUE, None) }
        \cup { EnvFile("key.env", TRUE, Some(v)) : v \in KeyValues }

(***************************************************************************)
(* Values of the variables a specification does not use                     *)
(***************************************************************************)

IdleTx ==
    [hash |-> "", amount |-> None, date |-> None, account |-> "",
     destination |-> None, transaction_type |-> ""]

AddrIdle == address = <<>> /\ vresult = "none" /\ decodeCalls = 0

NormIdle ==
    /\ account_data = [balance |-> <<>>]
    /\ tx = IdleTx
    /\ called = "none"
    /\ out = <<>>
    /\ overflow_checks = FALSE

BalIdle ==
    /\ pc = "idle"
    /\ requests = <<>>
    /\ info_result = <<>>
    /\ tx_response = <<>>
    /\ tx_result = <<>>
    /\ displayed = <<>>
    /\ stderr = <<>>
    /\ exit_code = <<>>

CfgIdle == env = None /\ loaded = None /\ loads = 0 /\ key_result = <<>>

(***************************************************************************)
(* The validator alone: one call of validate on one input                  *)
(***************************************************************************)

InitValidate ==
    /\ address \in AddressInputs
    /\ vresult = "none"
    /\ decodeCalls = 0
    /\ NormIdle /\ BalIdle /\ CfgIdle

Validate ==
    /\ vresult = "none"
    /\ vresult' = validate_run(address).result
    /\ decodeCalls' = decodeCalls + validate_run(address).decodes
    /\ UNCHANGED <<address, normVars, balVars, cfgVars>>

NextValidate == Validate

SpecValidate == InitValidate /\ [][NextValidate]_vars

(***************************************************************************)
(* models.rs alone: one call of one of its functions on one input          *)
(***************************************************************************)

InitNormalize ==
    /\ account_data \in [balance : AmountStrings]
    /\ tx \in Transactions
    /\ called = "none"
    /\ out = <<>>
    /\ overflow_checks \in BOOLEAN
    /\ AddrIdle /\ BalIdle /\ CfgIdle

CallBalanceXrp ==
    /\ called = "none"
    /\ called' = "balance_xrp"
    /\ out' = <<balance_xrp(account_data)>>
    /\ UNCHANGED <<account_data, tx, overflow_checks, addrVars, balVars, cfgVars>>

CallAmountXrp ==
    /\ called = "none"
    /\ called' = "amount_xrp"
    /\ out' = <<amount_xrp(tx)>>
    /\ UNCHANGED <<account_data, tx, overflow_checks, addrVars, balVars, cfgVars>>

CallFormattedDate ==
    /\ called = "none"
    /\ called' = "formatted_date"
    /\ out' = <<formatted_date(tx)>>
    /\ UNCHANGED <<account_data, tx, overflow_checks, addrVars, balVars, cfgVars>>

CallFromTransaction ==
    /\ called = "none"
    /\ called' = "from_transaction"
    /\ out' = <<from_transaction(tx)>>
    /\ UNCHANGED <<account_data, tx, overflow_checks, addrVars, balVars, cfgVars>>

NextNormalize ==
    \/ CallBalanceXrp
    \/ CallAmountXrp
    \/ CallFormattedDate
    \/ CallFromTransaction

SpecNormalize == InitNormalize /\ [][NextNormalize]_vars

(***************************************************************************)
(* The date functions over the whole of u64: one call on one transaction   *)
(***************************************************************************)

InitDate ==
    /\ account_data = [balance |-> <<>>]
    /\ tx \in WideTransactions
    /\ called = "none"
    /\ out = <<>>
    /\ overflow_checks \in BOOLEAN
    /\ AddrIdle /\ BalIdle /\ CfgIdle

NextDate ==
    \/ CallFormattedDate
    \/ CallFromTransaction

SpecDate == InitDate /\ [][NextDate]_vars

(***************************************************************************)
(* main.rs: the balance command                                            *)
(***************************************************************************)

\* "Ошибка: Кошелек не найден"
ERR_WALLET_NOT_FOUND == "Oshibka: Koshelek ne naiden"
\* "Ошибка: Не удается подключиться к API"
ERR_CANNOT_CONNECT == "Oshibka: Ne udaetsya podklyuchitsya k API"
\* "Не удалось создать HTTP-клиент", printed by main's Err return
ERR_CLIENT == "Error: Ne udalos sozdat HTTP-klient"

\* "thread 'main' panicked at ...: byte index N is not a char boundary"
ERR_PANIC == "thread 'main' panicked: byte index is not a char boundary"
\* The exit status of a process whose main thread panicked.
PANIC_EXIT_CODE == 101

InitBalance ==
    /\ address \in BalanceAddresses
    /\ vresult = "none"
    /\ decodeCalls = 0
    /\ pc = "start"
    /\ requests = <<>>
    /\ info_result = <<>>
    /\ tx_response = <<>>
    /\ tx_result = <<>>
    /\ displayed = <<>>
    /\ stderr = <<>>
    /\ exit_code = <<>>
    /\ NormIdle /\ CfgIdle

\* handle_balance: XrpApi::new()? succeeded
ApiNewOk ==
    /\ pc = "start"
    /\ pc' = "account_info"
    /\ UNCHANGED <<requests, info_result, tx_response, tx_result, displayed,
                   stderr, exit_code, addrVars, normVars, cfgVars>>

\* handle_balance: XrpApi::new()? failed; main returns the error
ApiNewErr ==
    /\ pc = "start"
    /\ pc' = "exited"
    /\ stderr' = Append(stderr, ERR_CLIENT)
    /\ exit_code' = <<1>>
    /\ UNCHANGED <<requests, info_result, tx_response, tx_result, displayed,
                   addrVars, normVars, cfgVars>>

\* handle_balance: get_account_info(&address).await and its Err arm
GetAccountInfo ==
    /\ pc = "account_info"
    /\ \E resp \in InfoResponses :
         LET r == get_account_info(resp)
         IN  /\ requests' = Append(requests, AccountInfoRequest_new(address))
             /\ info_result' = <<r>>
             /\ IF r.ok
                THEN /\ pc' = "account_tx"
                     /\ UNCHANGED <<stderr, exit_code>>
                ELSE /\ stderr' = Append(stderr,
                            IF Contains(r.msg, "actNotFound")
                                 \/ Contains(r.msg, "Account not found")
                            THEN ERR_WALLET_NOT_FOUND ELSE ERR_CANNOT_CONNECT)
                     /\ exit_code' = <<1>>
                     /\ pc' = "exited"
    /\ UNCHANGED <<tx_response, tx_result, displayed, addrVars, normVars, cfgVars>>

\* handle_balance: get_latest_transaction(&address).await and both its arms
GetLatestTransaction ==
    /\ pc = "account_tx"
    /\ \E resp \in TxResponses :
         LET r == get_latest_transaction(resp)
         IN  /\ requests' = Append(requests, AccountTxRequest_new(address))
             /\ tx_response' = <<resp>>
             /\ tx_result' = <<r>>
             /\ IF r.ok
                THEN LET d == display_account_info(address,
                                info_result[1].val[1].result.account_data, r.val[1])
                     IN  /\ displayed' = <<d>>
                         /\ exit_code' = <<IF d.panicked THEN PANIC_EXIT_CODE ELSE 0>>
                         /\ stderr' = IF d.panicked THEN Append(stderr, ERR_PANIC)
                                                     ELSE stderr
                ELSE /\ stderr' = Append(stderr, ERR_CANNOT_CONNECT)
                     /\ exit_code' = <<1>>
                     /\ UNCHANGED displayed
             /\ pc' = "exited"
    /\ UNCHANGED <<info_result, addrVars, normVars, cfgVars>>

NextBalance ==
    \/ ApiNewOk
    \/ ApiNewErr
    \/ GetAccountInfo
    \/ GetLatestTransaction

SpecBalance == InitBalance /\ [][NextBalance]_vars

(***************************************************************************)
(* config.rs: loads of .env files, then one get_private_key                *)
(***************************************************************************)

InitConfig ==
    /\ env \in {None} \cup { Some(v) : v \in KeyValues }
    /\ loaded = None
    /\ loads = 0
    /\ key_result = <<>>
    /\ AddrIdle /\ NormIdle /\ BalIdle

LoadEnvFile ==
    /\ key_result = <<>>
    /\ loads < MaxLoads
    /\ \E f \in EnvFiles :
         LET r == load_env_file(f, env)
         IN  /\ env' = r.env
             /\ loaded' = IF r.result.ok THEN Some(f) ELSE loaded
    /\ loads' = loads + 1
    /\ UNCHANGED <<key_result, addrVars, normVars, balVars>>

\* env::remove_var("PRIVATE_KEY") of test_get_private_key_not_found
RemoveVar ==
    /\ key_result = <<>>
    /\ loaded = None
    /\ env # None
    /\ env' = None
    /\ UNCHANGED <<loaded, loads, key_result, addrVars, normVars, balVars>>

GetPrivateKey ==
    /\ key_result = <<>>
    /\ key_result' = <<get_private_key(env)>>
    /\ UNCHANGED <<env, loaded, loads, addrVars, normVars, balVars>>

NextConfig ==
    \/ LoadEnvFile
    \/ RemoveVar
    \/ GetPrivateKey

SpecConfig == InitConfig /\ [][NextConfig]_vars

(***************************************************************************)
(* Properties of validate (SpecValidate)                                   *)
(***************************************************************************)

Validated == vresult # "none"

HasNonBase58(s) == \E i \in 1..Len(s) : ~IsBase58Char(s[i])

\* C2: every address that passes the length, prefix, Base58 and decoded-length
\* checks and whose last four decoded bytes differ from the big-endian CRC-32
\* of the bytes before them is rejected with InvalidChecksum.
C2_ChecksumIsVerified ==
    LET d == from_base58(address)
    IN  ( /\ Validated
          /\ StrLen(address) >= 25 /\ StrLen(address) <= 35
          /\ StartsWith(address, "r")
          /\ d.ok /\ Len(d.bytes) >= 5
          /\ checksum_of(d.bytes) # calculate_checksum(data_without_checksum(d.bytes)) )
        => vresult = "InvalidChecksum"

\* C3: validate reports the first failing check in the order length floor,
\* length ceiling, prefix, Base58: shorter than 25 is TooShort whatever the
\* content, longer than 35 is TooLong with no Base58 decoding attempted, length
\* 25..35 without a leading 'r' is InvalidPrefix even with characters outside
\* Base58, and InvalidBase58 comes only for length 25..35 with a leading 'r'.
C3_FirstFailingCheck ==
    Validated =>
        /\ StrLen(address) < 25 => vresult = "TooShort"
        /\ StrLen(address) > 35 => vresult = "TooLong" /\ decodeCalls = 0
        /\ (StrLen(address) >= 25 /\ StrLen(address) <= 35
              /\ ~StartsWith(address, "r")) => vresult = "InvalidPrefix"
        /\ vresult = "InvalidBase58" =>
              /\ StrLen(address) >= 25 /\ StrLen(address) <= 35
              /\ StartsWith(address, "r")
              /\ decodeCalls = 1

\* A string of length 25..35 without a leading 'r' and with a character outside
\* Base58 was reported as InvalidPrefix.
C3_Witness ==
    /\ vresult = "InvalidPrefix"
    /\ HasNonBase58(address)
    /\ StrLen(address) >= 25 /\ StrLen(address) <= 35

\* C4 as stated: every string that does not start with 'r' fails with
\* InvalidPrefix, "xInvalidPrefix0000000000" among them.
C4_AnyLengthInvalidPrefix ==
    (Validated /\ ~StartsWith(address, "r")) => vresult = "InvalidPrefix"

\* C4 as amended: a string that does not start with 'r' fails with TooShort
\* when shorter than 25 bytes, with TooLong when longer than 35, and with
\* InvalidPrefix otherwise, valid Base58 or not; "xInvalidPrefix0000000000"
\* has 24 characters and fails with TooShort.
C4_InvalidPrefixWithinLength ==
    (Validated /\ ~StartsWith(address, "r")) =>
        /\ vresult = IF StrLen(address) < 25 THEN "TooShort"
                     ELSE IF StrLen(address) > 35 THEN "TooLong"
                     ELSE "InvalidPrefix"
        /\ address = X_INVALID_PREFIX => StrLen(address) = 24 /\ vresult = "TooShort"

\* Valid Base58 of length 25..35 without a leading 'r' failed with
\* InvalidPrefix.
C4_Witness ==
    /\ vresult = "InvalidPrefix"
    /\ ~HasNonBase58(address)
    /\ address # <<>> /\ Head(address) = "x"

\* C5 as stated: "rvalidexample0000000000000000000" is valid Base58 and
\* validate returns Ok for it.
C5_ExampleIsAccepted ==
    (Validated /\ address = R_VALID_EXAMPLE) =>
        /\ ~HasNonBase58(address)
        /\ vresult = "Ok"

\* C5 as amended: "rvalidexample0000000000000000000" has 32 characters and
\* starts with 'r', but its characters '0' and 'l' are outside the Base58
\* alphabet, and validate returns InvalidBase58 for it.
C5_ExampleIsInvalidBase58 ==
    (Validated /\ address = R_VALID_EXAMPLE) =>
        /\ StrLen(address) = 32
        /\ StartsWith(address, "r")
        /\ \E i \in 1..Len(address) : address[i] = "0"
        /\ \E i \in 1..Len(address) : address[i] = "l"
        /\ \A i \in 1..Len(address) :
              address[i] \in {"0", "l"} => ~IsBase58Char(address[i])
        /\ vresult = "InvalidBase58"

C5_Witness == address = R_VALID_EXAMPLE /\ vresult = "InvalidBase58"

(***************************************************************************)
(* Properties of models.rs (SpecNormalize)                                 *)
(***************************************************************************)

STR_1000000 == <<"1", "0", "0", "0", "0", "0", "0">>
STR_NOT_A_NUMBER == <<"n", "o", "t", "-", "a", "-", "n", "u", "m", "b", "e", "r">>

\* v is what parsing the string s and dividing by 1,000,000 gives, 0 when s
\* does not parse.
IsDisplayOf(v, s) ==
    LET p == parse_f64(s)
    IN  IF ~p.ok THEN v = ZERO
        ELSE IF p.val.kind = "num"
             THEN /\ v.kind = "num" /\ v.neg = p.val.neg
                  /\ v.mant = p.val.mant
                  /\ v.exp = IF p.val.mant = 0 THEN 0 ELSE p.val.exp - 6
             ELSE v = p.val

\* C6: balance_xrp and amount_xrp never signal an error: they return the
\* parsed number divided by 1,000,000 when the string parses and exactly 0 when
\* it does not, amount_xrp also 0 when the amount is absent; "1000000" gives 1,
\* "0" gives 0 and "not-a-number" gives 0.
C6_LenientConversion ==
    /\ called = "balance_xrp" =>
         /\ out[1].kind \in {"num", "inf", "nan"}
         /\ IsDisplayOf(out[1], account_data.balance)
         /\ account_data.balance = STR_1000000 => out[1] = F64(FALSE, 1, 0)
         /\ account_data.balance = <<"0">> => out[1] = ZERO
         /\ account_data.balance = STR_NOT_A_NUMBER => out[1] = ZERO
    /\ called = "amount_xrp" =>
         /\ out[1].kind \in {"num", "inf", "nan"}
         /\ tx.amount = None => out[1] = ZERO
         /\ tx.amount # None => IsDisplayOf(out[1], tx.amount[1])
         /\ tx.amount = Some(STR_1000000) => out[1] = F64(FALSE, 1, 0)
         /\ tx.amount = Some(<<"0">>) => out[1] = ZERO
         /\ tx.amount = Some(STR_NOT_A_NUMBER) => out[1] = ZERO

\* balance_xrp was called on a string that does not parse and returned 0.
C6_Witness ==
    /\ called = "balance_xrp"
    /\ account_data.balance = STR_NOT_A_NUMBER
    /\ out = <<ZERO>>

\* The civil (Gregorian) date of a day number counted from 1970-01-01.
CivilFromDays(days) ==
    LET z   == days + 719468
        era == z \div 146097
        doe == z % 146097
        yoe == (doe - (doe \div 1460) + (doe \div 36524) - (doe \div 146096)) \div 365
        doy == doe - (365 * yoe + (yoe \div 4) - (yoe \div 100))
        mp  == (5 * doy + 2) \div 153
        m   == IF mp < 10 THEN mp + 3 ELSE mp - 9
    IN  [year  |-> yoe + era * 400 + (IF m <= 2 THEN 1 ELSE 0),
         month |-> m,
         day   |-> doy - ((153 * mp + 2) \div 5) + 1]

\* "YYYY-MM-DD HH:MM UTC" of the instant unix seconds after the Unix epoch.
UtcText(unix) ==
    LET c == CivilFromDays(unix \div 86400)
    IN  ToDec(c.year) \o <<"-">> \o Pad2(c.month) \o <<"-">> \o Pad2(c.day)
          \o <<" ">> \o Pad2((unix % 86400) \div 3600)
          \o <<":">> \o Pad2((unix % 3600) \div 60) \o <<" ", "U", "T", "C">>

\* "2000-01-01 00:00 UTC"
LEDGER_EPOCH_TEXT ==
    <<"2", "0", "0", "0", "-", "0", "1", "-", "0", "1", " ",
      "0", "0", ":", "0", "0", " ", "U", "T", "C">>

\* C7: formatted_date returns the "no data" sentinel for an absent date and
\* for a present date d renders the instant d + 946,684,800 seconds after the
\* Unix epoch; date Some(0) renders 2000-01-01 00:00 UTC.
C7_RendersLedgerInstant ==
    called = "formatted_date" =>
        /\ tx.date = None => out[1] = NO_DATA
        /\ tx.date # None => out[1] = UtcText(946684800 + U64Value(tx.date[1]))
        /\ tx.date = Some(U64(0)) => out[1] = LEDGER_EPOCH_TEXT

\* C8: from_transaction returns Some exactly for transaction_type "Payment";
\* then hash and from are tx.hash and tx.account, amount_xrp is
\* tx.amount_xrp(), timestamp is tx.formatted_date(), and to is the destination
\* or the "unknown" sentinel when there is none.
C8_ProjectsPaymentsOnly ==
    called = "from_transaction" =>
        /\ out[1] # None <=> tx.transaction_type = "Payment"
        /\ out[1] # None =>
             /\ out[1][1].hash = tx.hash
             /\ out[1][1].from = tx.account
             /\ out[1][1].amount_xrp = amount_xrp(tx)
             /\ out[1][1].timestamp = formatted_date(tx)
             /\ out[1][1].to = IF tx.destination = None THEN "Neizvestno"
                                                        ELSE tx.destination[1]

\* A Payment without destination was projected with the sentinel, and a
\* transaction of another type was dropped.
C8_Witness ==
    /\ called = "from_transaction"
    /\ tx.transaction_type = "Payment"
    /\ tx.destination = None
    /\ out[1] # None
    /\ out[1][1].to = UNKNOWN

(***************************************************************************)
(* Properties of the balance command (SpecBalance)                         *)
(***************************************************************************)

\* C1: no request is posted before validate has returned Ok for the address,
\* and none at all when validate returns an error for it.
C1_ValidatedBeforeAnyRequest ==
    requests # <<>> => vresult = "Ok" /\ validate(address) = "Ok"

\* The account_tx response was read as a successful one.
TxSucceeded ==
    /\ tx_response # <<>>
    /\ tx_response[1].sent
    /\ IsSuccess(tx_response[1].code)
    /\ tx_response[1].json # None
    /\ tx_response[1].json[1].result.status = "success"

TxList == tx_response[1].json[1].result.transactions

\* C9: the account_tx request has limit 1 and descending true; on a successful
\* response get_latest_transaction returns Ok(None) for an empty list and for a
\* list whose first transaction is no Payment, whatever follows it, and
\* Ok(Some) of the first transaction's projection exactly when the list is
\* non-empty and starts with a Payment.
C9_OnlyFirstTransaction ==
    tx_result # <<>> =>
        /\ requests[Len(requests)].method = "account_tx"
        /\ requests[Len(requests)].params =
              <<[account |-> address, limit |-> 1, descending |-> TRUE]>>
        /\ TxSucceeded =>
             /\ tx_result[1].ok
             /\ TxList = <<>> => tx_result[1].val[1] = None
             /\ (TxList # <<>> /\ TxList[1].tx.transaction_type # "Payment")
                   => tx_result[1].val[1] = None
             /\ tx_result[1].val[1] # None
                   <=> (TxList # <<>> /\ TxList[1].tx.transaction_type = "Payment")
             /\ tx_result[1].val[1] # None
                   => tx_result[1].val[1][1].hash = TxList[1].tx.hash

\* A successful response listed a transaction that is no Payment, then a
\* Payment, and get_latest_transaction returned Ok(None).
C9_Witness ==
    /\ TxSucceeded
    /\ Len(TxList) = 2
    /\ TxList[1].tx.transaction_type # "Payment"
    /\ TxList[2].tx.transaction_type = "Payment"
    /\ tx_result = <<Ok(None)>>

(***************************************************************************)
(* Properties of config.rs (SpecConfig)                                    *)
(***************************************************************************)

\* C10: after load_env_file(f) succeeded, get_private_key gives the
\* PRIVATE_KEY of f whatever the environment held before: Ok(v) for a non-empty
\* v, the "empty" error for the empty string; with PRIVATE_KEY not set at all
\* it gives the "not found" error.
C10_KeyOfLoadedFile ==
    key_result # <<>> =>
        /\ (loaded # None /\ loaded[1].private_key # None) =>
              IF loaded[1].private_key[1] # ""
              THEN key_result[1] = Ok(loaded[1].private_key[1])
              ELSE /\ ~key_result[1].ok
                   /\ Contains(key_result[1].msg, "PRIVATE_KEY pusta")
        /\ env = None =>
              /\ ~key_result[1].ok
              /\ Contains(key_result[1].msg, "PRIVATE_KEY ne naidena")

(***************************************************************************)
(* Order and outcome of the balance command (SpecBalance)                  *)
(***************************************************************************)

\* get_account_info returned Ok.
InfoOk == info_result # <<>> /\ info_result[1].ok

\* get_latest_transaction returned Ok.
TxOk == tx_result # <<>> /\ tx_result[1].ok

\* C11: get_latest_transaction is called only after get_account_info
\* returned Ok, which it does only for an HTTP success status with result
\* status "success"; the account is displayed only after both calls returned
\* Ok; when a call fails nothing is displayed and the exit code is 1; and every
\* run ends with the account displayed or with exit code 1.
C11_OrderedStepsAndOutcome ==
    /\ \A resp \in InfoResponses :
          get_account_info(resp).ok =>
              /\ resp.sent /\ IsSuccess(resp.code) /\ resp.json # None
              /\ resp.json[1].result.status = "success"
    /\ (pc = "account_tx" \/ tx_result # <<>>) => InfoOk
    /\ displayed # <<>> => InfoOk /\ TxOk
    /\ ( \/ (info_result # <<>> /\ ~info_result[1].ok)
         \/ (tx_result # <<>> /\ ~tx_result[1].ok) )
          => displayed = <<>> /\ exit_code = <<1>>
    /\ pc = "exited" =>
          \/ displayed # <<>> /\ ~displayed[1].panicked
          \/ exit_code = <<1>>

(***************************************************************************)
(* The decoded length (SpecValidate)                                       *)
(***************************************************************************)

\* C12: a string that passes the length, prefix and Base58 checks decodes to
\* at least 5 bytes, so the split into payload and 4-byte checksum is defined
\* with a non-empty payload, and validate never returns InvalidDataLength.
C12_DecodedLongEnough ==
    Validated =>
        /\ vresult # "InvalidDataLength"
        /\ ( /\ StrLen(address) >= 25 /\ StrLen(address) <= 35
             /\ StartsWith(address, "r")
             /\ from_base58(address).ok ) =>
               LET decoded == from_base58(address).bytes
               IN  /\ Len(decoded) >= 5
                   /\ Len(checksum_of(decoded)) = 4
                   /\ Len(data_without_checksum(decoded)) >= 1
                   /\ data_without_checksum(decoded) \o checksum_of(decoded) = decoded

\* The shortest accepted form, 'r' and 24 more Base58 characters, most of them
\* the zero digit '1', was decoded and passed the decoded-length check.
C12_Witness ==
    /\ vresult = "Ok"
    /\ decodeCalls = 1
    /\ StrLen(address) = 25
    /\ address[2] = "1"
    /\ Len(from_base58(address).bytes) >= 5

(***************************************************************************)
(* The fields of a rendered date (SpecNormalize)                           *)
(***************************************************************************)

RECURSIVE Split(_, _)
\* The pieces of s between the separators '-', ' ' and ':', after the piece
\* cur that is being read.
Split(s, cur) ==
    IF s = <<>> THEN <<cur>>
    ELSE IF Head(s) \in {"-", " ", ":"} THEN <<cur>> \o Split(Tail(s), <<>>)
    ELSE Split(Tail(s), Append(cur, Head(s)))

\* The number printed as the i-th field of "Y-M-D h:m UTC".
DateField(text, i) == DecValue(Split(text, <<>>)[i])

\* C13: for every present date the rendered string has month 1..12, day 1..30,
\* hour 0..23 and minute 0..59.
C13_CalendarFieldsInRange ==
    (called = "formatted_date" /\ tx.date # None) =>
        /\ Len(Split(out[1], <<>>)) = 6
        /\ DateField(out[1], 2) \in 1..12
        /\ DateField(out[1], 3) \in 1..30
        /\ DateField(out[1], 4) \in 0..23
        /\ DateField(out[1], 5) \in 0..59

(***************************************************************************)
(* The date functions over the whole of u64 (SpecDate)                     *)
(***************************************************************************)

\* C14: for every u64 date d the sum 946,684,800 + d stays within u64, and
\* formatted_date returns a rendered timestamp: it does not fail, and it does
\* not return the "Некорректная дата" text.
C14_TotalOverU64 ==
    (called = "formatted_date" /\ tx.date # None) =>
        /\ ~U64Add(U64(946684800), tx.date[1]).overflow
        /\ ~IsPanic(out[1])
        /\ out[1] # BAD_DATE
        /\ Len(Split(out[1], <<>>)) = 6

====
